---- MODULE Spec2Model ----
(***************************************************************************)
(* Request instrumentation of src/app.py: correlation identifiers, the     *)
(* structured log records, the X-Ray subsegment stack around the simulated *)
(* operations, the annotation helpers and the error handler.               *)
(*                                                                         *)
(* Each request is one execution that moves through the positions          *)
(*   idle -> dispatch -> [db_sleep -> [api_sleep ->]]                      *)
(*        (respond | raised -> respond) -> finalize -> done                *)
(* A view waits inside time.sleep of a simulated operation; requests        *)
(* interleave at these positions. Everything a request touches is           *)
(* request-local except the generator of identifiers.                      *)
(***************************************************************************)
EXTENDS Integers, Sequences, FiniteSets, TLC

\* ------------------------------------------------------------ bounds ----
NumRequests == 2
MaxUuid == 2

Requests == 1 .. NumRequests

\* str(uuid.uuid4()): the values the generator can return in the model
UuidStrings == << "uuid-1", "uuid-2", "uuid-3", "uuid-4" >>
UUIDs == { UuidStrings[i] : i \in 1 .. MaxUuid }

\* values of the X-Request-ID request header; "" is an absent or empty header
HeaderValues == { "", "abc-123" }

\* request paths: the five routes and one path no route matches
Routes == { "/", "/resources/42", "/resources/42/items", "/error", "/health",
            "/nonexistent" }

\* random.random() in hundredths, and the default failure rates
Draws == { 2, 50 }
DbFailureRate == 5
ApiFailureRate == 10

\* request.request_id before before_request has set it
NoAttr == "<unset>"
\* no exception pending
NoExc == ""
\* logger call without extra=
NoExtra == [ a \in {} |-> "" ]

\* logging's numeric levels, for the names LOG_LEVEL can take (line 16)
levelno == [ DEBUG |-> 10, INFO |-> 20, WARNING |-> 30, ERROR |-> 40,
             CRITICAL |-> 50 ]

VARIABLES
    LOG_LEVEL,        \* line 16, the threshold given to logger.setLevel (line 25)
    ENABLE_X_RAY,     \* line 18
    middleware,       \* XRayMiddleware installed (line 84 reached without failure)
    context_missing,  \* strategy of the recorder when no segment is in context
    put_fails,        \* put_annotation / put_metadata of the current segment raises
    issued,           \* identifiers uuid4 has returned so far
    pc,               \* position of each request
    headers,          \* request.headers.get('X-Request-ID') of each request
    path,             \* request.path
    request_id,       \* request.request_id
    ctx,              \* per request: entities, log, trace, calls, sims,
                      \* annotations, exc (the exception that left the view),
                      \* ret, from and db_status (locals of the running view)
    response          \* the response object of each request

vars == << LOG_LEVEL, ENABLE_X_RAY, middleware, context_missing, put_fails, issued, pc,
           headers, path, request_id, ctx, response >>

config == << LOG_LEVEL, ENABLE_X_RAY, middleware, context_missing, put_fails >>

\* ------------------------------------------------- logging (lines 28-48) --
\* JsonFormatter.format: level and message always, request_id only when the
\* record has the attribute, metadata_status_code flattened to status_code.
format(record) ==
    LET base == [ level |-> record.levelname, message |-> record.msg ]
        withId == IF "request_id" \in DOMAIN record.extra
                  THEN base @@ [ request_id |-> record.extra.request_id ]
                  ELSE base
    IN  IF "metadata_status_code" \in DOMAIN record.extra
        THEN withId @@ [ status_code |-> record.extra.metadata_status_code ]
        ELSE withId

\* one step of the request's execution, in order of occurrence
event(st, op, arg) == [ st EXCEPT !.trace = Append(@, [ op |-> op, arg |-> arg ]) ]

\* Logger.isEnabledFor: the logger drops what lies below its level (line 25)
isEnabledFor(level) == levelno[level] >= levelno[LOG_LEVEL]

\* logger.<level>(msg, extra=extra): when the level is enabled the handler
\* formats and emits the record
emit(st, level, msg, extra) ==
    IF isEnabledFor(level)
    THEN [ event(st, "log", level) EXCEPT
             !.log = Append(@, format([ levelname |-> level, msg |-> msg,
                                        extra |-> extra ])) ]
    ELSE st

raise(st, e) == [ st EXCEPT !.exc = e ]

return(st, v) == [ st EXCEPT !.ret = v ]

\* getattr(request, 'request_id', 'unknown')
getattr_request_id(rid) == IF rid = NoAttr THEN "unknown" ELSE rid

\* --------------------------------------------- the recorder's context ----
\* The entities of the request's context: the segment the middleware opened,
\* then the open subsegments, innermost last.
MissingSegment == "SegmentNotFoundException: cannot find the current segment"
NoneAttribute == "AttributeError: 'NoneType' object has no attribute 'add_exception'"

\* xray_recorder.current_segment(): the segment, None, or the lookup raises
current_segment(st) ==
    IF st.entities = << >>
    THEN IF context_missing = "RUNTIME_ERROR" THEN "raise" ELSE "none"
    ELSE st.entities[1]

\* xray_recorder.current_subsegment(): the innermost open subsegment or None
current_subsegment(st) ==
    IF st.entities = << >>
    THEN IF context_missing = "RUNTIME_ERROR" THEN "raise" ELSE "none"
    ELSE IF Len(st.entities) > 1 THEN st.entities[Len(st.entities)] ELSE "none"

\* __enter__ of in_subsegment with a segment in context: push
begin_subsegment(st, name) ==
    [ event(st, "open", name) EXCEPT !.entities = Append(@, name) ]

\* __exit__ of in_subsegment: nothing when no subsegment was begun, else the
\* innermost open subsegment is ended
end_subsegment(st, begun) ==
    IF ~begun \/ Len(st.entities) <= 1
    THEN st
    ELSE [ event(st, "close", st.entities[Len(st.entities)]) EXCEPT
             !.entities = SubSeq(@, 1, Len(@) - 1) ]

\* the call is over: remember where its steps lie in the request's trace
called(st, fn, name, draw, result) ==
    [ st EXCEPT !.sims = Append(@, [ fn |-> fn, name |-> name, draw |-> draw,
                                     from |-> st.from, to |-> Len(st.trace),
                                     result |-> result ]),
                !.from = 0 ]

\* the call begins: its steps start at the next position of the trace
calling(st) == [ st EXCEPT !.from = Len(st.trace) + 1 ]

\* random.random() was not reached
NoDraw == 0 - 1

\* ------------------------------------- utility functions (lines 152-241) --
\* Each simulated operation is written in two halves: up to and into
\* time.sleep, where the thread waits and other requests run, and from the
\* wake-up to the return.

\* lines 163-165: ENABLE_X_RAY false, into the sleep
simulate_db_operation_plain_enter(st, operation_name) ==
    event(calling(st), "sleep", "0.05-0.2")

\* lines 166-170: ENABLE_X_RAY false, after the sleep
simulate_db_operation_plain_leave(st, operation_name, draw) ==
    LET st1 == event(st, "random", "")
    IN  IF draw < DbFailureRate
        THEN called(return(emit(st1, "ERROR", "Database operation failed", NoExtra),
                           [ status |-> "error", operation |-> operation_name ]),
                    "db", operation_name, draw, "error")
        ELSE called(return(emit(st1, "INFO", "Database operation completed", NoExtra),
                           [ status |-> "success", operation |-> operation_name ]),
                    "db", operation_name, draw, "success")

\* lines 163-170 as one call
simulate_db_operation_plain(st, operation_name, draw) ==
    simulate_db_operation_plain_leave(
        simulate_db_operation_plain_enter(st, operation_name), operation_name, draw)

\* lines 172-174: `with xray_recorder.in_subsegment(...)`, into the sleep
simulate_db_operation_xray_enter(st, operation_name) ==
    LET seg == current_segment(st)
    IN  IF seg = "raise"
        THEN called(raise(calling(st), MissingSegment), "db", operation_name,
                    NoDraw, "raise")
        ELSE IF seg = "none"
        THEN event(calling(st), "sleep", "0.05-0.2")
        ELSE event(begin_subsegment(calling(st), "database_" \o operation_name),
                   "sleep", "0.05-0.2")

\* lines 177-186 as they would read without the with block: the failure
\* return leaves the subsegment open
simulate_db_operation_xray_leave_unscoped(st, operation_name, draw) ==
    LET st1 == event(st, "random", "")
    IN  IF draw < DbFailureRate
        THEN called(return(event(emit(st1, "ERROR", "Database operation failed",
                                      NoExtra),
                                 "add_exception", "database_" \o operation_name),
                           [ status |-> "error", operation |-> operation_name ]),
                    "db", operation_name, draw, "error")
        ELSE called(return(end_subsegment(
                               emit(st1, "INFO", "Database operation completed",
                                    NoExtra), TRUE),
                           [ status |-> "success", operation |-> operation_name ]),
                    "db", operation_name, draw, "success")

\* lines 177-186: after the sleep, to the exit of the with block
simulate_db_operation_xray_leave(st, operation_name, draw) ==
    LET begun == Len(st.entities) > 1
        st1 == event(st, "random", "")
    IN  IF draw < DbFailureRate
        THEN LET st2 == emit(st1, "ERROR", "Database operation failed", NoExtra)
                 sub == current_subsegment(st2)
             IN  IF sub \in { "raise", "none" }
                 THEN called(raise(end_subsegment(st2, begun),
                                   IF sub = "raise" THEN MissingSegment
                                   ELSE NoneAttribute),
                             "db", operation_name, draw, "raise")
                 ELSE called(return(end_subsegment(
                                        event(st2, "add_exception", sub), begun),
                                    [ status |-> "error",
                                      operation |-> operation_name ]),
                             "db", operation_name, draw, "error")
        ELSE called(return(end_subsegment(
                               emit(st1, "INFO", "Database operation completed",
                                    NoExtra), begun),
                           [ status |-> "success", operation |-> operation_name ]),
                    "db", operation_name, draw, "success")

\* lines 152-186, into the sleep
simulate_db_operation_enter(st, operation_name) ==
    IF st.exc # NoExc THEN st
    ELSE IF ~ENABLE_X_RAY THEN simulate_db_operation_plain_enter(st, operation_name)
    ELSE simulate_db_operation_xray_enter(st, operation_name)

\* lines 152-186, after the sleep
simulate_db_operation_leave(st, operation_name, draw) ==
    IF st.exc # NoExc THEN st
    ELSE IF ~ENABLE_X_RAY
         THEN simulate_db_operation_plain_leave(st, operation_name, draw)
    ELSE simulate_db_operation_xray_leave(st, operation_name, draw)

\* lines 200-202: ENABLE_X_RAY false, into the sleep
simulate_external_api_call_plain_enter(st, api_name) ==
    event(calling(st), "sleep", "0.1-0.3")

\* lines 203-207: ENABLE_X_RAY false, after the sleep
simulate_external_api_call_plain_leave(st, api_name, draw) ==
    LET st1 == event(st, "random", "")
    IN  IF draw < ApiFailureRate
        THEN called(return(emit(st1, "ERROR", "API call failed", NoExtra),
                           [ status |-> "error", api |-> api_name ]),
                    "api", api_name, draw, "error")
        ELSE called(return(emit(st1, "INFO", "API call completed", NoExtra),
                           [ status |-> "success", api |-> api_name ]),
                    "api", api_name, draw, "success")

\* lines 200-207 as one call
simulate_external_api_call_plain(st, api_name, draw) ==
    simulate_external_api_call_plain_leave(
        simulate_external_api_call_plain_enter(st, api_name), api_name, draw)

\* lines 209-211: `with xray_recorder.in_subsegment(...)`, into the sleep
simulate_external_api_call_xray_enter(st, api_name) ==
    LET seg == current_segment(st)
    IN  IF seg = "raise"
        THEN called(raise(calling(st), MissingSegment), "api", api_name, NoDraw,
                    "raise")
        ELSE IF seg = "none"
        THEN event(calling(st), "sleep", "0.1-0.3")
        ELSE event(begin_subsegment(calling(st), "external_api_" \o api_name),
                   "sleep", "0.1-0.3")

\* lines 214-223: after the sleep, to the exit of the with block
simulate_external_api_call_xray_leave(st, api_name, draw) ==
    LET begun == Len(st.entities) > 1
        st1 == event(st, "random", "")
    IN  IF draw < ApiFailureRate
        THEN LET st2 == emit(st1, "ERROR", "API call failed", NoExtra)
                 sub == current_subsegment(st2)
             IN  IF sub \in { "raise", "none" }
                 THEN called(raise(end_subsegment(st2, begun),
                                   IF sub = "raise" THEN MissingSegment
                                   ELSE NoneAttribute),
                             "api", api_name, draw, "raise")
                 ELSE called(return(end_subsegment(
                                        event(st2, "add_exception", sub), begun),
                                    [ status |-> "error", api |-> api_name ]),
                             "api", api_name, draw, "error")
        ELSE called(return(end_subsegment(
                               emit(st1, "INFO", "API call completed", NoExtra),
                               begun),
                           [ status |-> "success", api |-> api_name ]),
                    "api", api_name, draw, "success")

\* lines 189-223, into the sleep
simulate_external_api_call_enter(st, api_name) ==
    IF st.exc # NoExc THEN st
    ELSE IF ~ENABLE_X_RAY THEN simulate_external_api_call_plain_enter(st, api_name)
    ELSE simulate_external_api_call_xray_enter(st, api_name)

\* lines 189-223, after the sleep
simulate_external_api_call_leave(st, api_name, draw) ==
    IF st.exc # NoExc THEN st
    ELSE IF ~ENABLE_X_RAY
         THEN simulate_external_api_call_plain_leave(st, api_name, draw)
    ELSE simulate_external_api_call_xray_leave(st, api_name, draw)

\* the helper is over: remember how it ended
noted(st, fn, outcome) ==
    [ st EXCEPT !.calls = Append(@, [ fn |-> fn, outcome |-> outcome ]) ]

\* lines 228-232 and 237-241, fn being add_annotation or add_metadata. The
\* guard looks the segment up outside the try; inside the try the segment is
\* looked up again and put_annotation / put_metadata is called on it.
attach(st, fn, key, warning) ==
    LET guard == current_segment(st)
        inside == current_segment(st)
    IN  IF st.exc # NoExc THEN st
        ELSE IF ~ENABLE_X_RAY THEN noted(st, fn, "noop")
        ELSE IF guard = "raise"
             THEN noted(raise(st, MissingSegment), fn, "raised")
        ELSE IF guard = "none" THEN noted(st, fn, "noop")
        ELSE IF inside \in { "raise", "none" } \/ put_fails
             THEN noted(emit(st, "WARNING", warning, NoExtra), fn, "warned")
        ELSE noted([ st EXCEPT !.annotations = @ \cup { key } ], fn, "attached")

\* lines 226-232
add_annotation(st, key) ==
    attach(st, "add_annotation", key, "Failed to add X-Ray annotation")

\* lines 235-241
add_metadata(st, key) ==
    attach(st, "add_metadata", key, "Failed to add X-Ray metadata")

\* ------------------------------------------- before_request (lines 93-111)
\* the incoming header is ignored
resolve_request_id_generated(h, generated) == generated

\* lines 96-99: the header when it is non-empty, else the generated string
resolve_request_id(h, generated) == IF h # "" THEN h ELSE generated

EmptyCtx ==
    [ entities |-> << >>, log |-> << >>, trace |-> << >>, calls |-> << >>,
      sims |-> << >>, annotations |-> {}, exc |-> NoExc, ret |-> NoExtra,
      from |-> 0, db_status |-> "" ]

NoResponse == [ status_code |-> 0, body |-> NoExtra, headers |-> NoExtra ]

BeforeRequest(r) ==
    /\ pc[r] = "idle"
    /\ \E h \in HeaderValues, p \in Routes :
       \E u \in (IF h = "" THEN UUIDs \ issued ELSE { NoAttr }) :
         LET rid == resolve_request_id(h, u)
             seg == IF ENABLE_X_RAY /\ middleware THEN << "segment" >> ELSE << >>
             st0 == [ ctx[r] EXCEPT !.entities = seg ]
         IN  /\ headers' = [ headers EXCEPT ![r] = h ]
             /\ path' = [ path EXCEPT ![r] = p ]
             /\ request_id' = [ request_id EXCEPT ![r] = rid ]
             /\ issued' = IF h # "" THEN issued ELSE issued \cup { u }
             /\ ctx' = [ ctx EXCEPT ![r] =
                           emit(st0, "INFO", "Received request",
                                [ request_id |-> rid ]) ]
    /\ pc' = [ pc EXCEPT ![r] = "dispatch" ]
    /\ UNCHANGED << config, response >>

\* ------------------------------------------- route handlers (lines 246-351)
\* `except Exception as e: logger.exception(...); raise` of a route
reraise(st, rid, msg) ==
    IF st.exc = NoExc THEN st
    ELSE emit(st, "ERROR", msg, [ request_id |-> getattr_request_id(rid) ])

jsonify(body, status) ==
    [ status_code |-> status, body |-> body, headers |-> NoExtra ]

\* lines 246-262
index(st, rid) ==
    LET st1 == emit(st, "INFO", "Processing root endpoint request",
                    [ request_id |-> getattr_request_id(rid) ])
    IN  reraise(return(st1, jsonify([ status |-> "healthy",
                                      request_id |-> getattr_request_id(rid) ],
                                    200)),
                rid, "Error in root endpoint")

\* lines 265-278: get_resource up to the sleep of simulate_db_operation
get_resource_begin(st, rid) ==
    LET st1 == emit(st, "INFO", "Fetching resource data",
                    [ request_id |-> getattr_request_id(rid) ])
        st2 == add_annotation(st1, "resource_id")
    IN  reraise(simulate_db_operation_enter(st2, "get_resource"), rid,
                "Error fetching resource")

\* lines 278-289: get_resource from the wake-up on
get_resource_end(st, rid, resource_id, draw) ==
    LET st1 == simulate_db_operation_leave(st, "get_resource", draw)
        st2 == IF st1.exc # NoExc THEN st1
               ELSE return(st1, jsonify([ resource_id |-> resource_id,
                                          status |-> st1.ret.status,
                                          request_id |-> getattr_request_id(rid) ],
                                        200))
    IN  reraise(st2, rid, "Error fetching resource")

\* lines 292-306: get_resource_items up to the sleep of simulate_db_operation
get_resource_items_begin(st, rid) ==
    LET st1 == emit(st, "INFO", "Fetching items for resource",
                    [ request_id |-> getattr_request_id(rid) ])
        st2 == add_metadata(add_annotation(st1, "resource_id"), "query_params")
    IN  reraise(simulate_db_operation_enter(st2, "get_items"), rid,
                "Error fetching resource items")

\* lines 306-307: db_result is kept, up to the sleep of
\* simulate_external_api_call
get_resource_items_db(st, rid, db_draw) ==
    LET st1 == simulate_db_operation_leave(st, "get_items", db_draw)
        st2 == IF st1.exc # NoExc THEN st1
               ELSE [ st1 EXCEPT !.db_status = st1.ret.status ]
    IN  reraise(simulate_external_api_call_enter(st2, "validation_service"), rid,
                "Error fetching resource items")

\* lines 307-325: get_resource_items from the second wake-up on
get_resource_items_end(st, rid, resource_id, api_draw) ==
    LET st1 == simulate_external_api_call_leave(st, "validation_service", api_draw)
        st2 == IF st1.exc # NoExc THEN st1
               ELSE return(st1, jsonify([ resource_id |-> resource_id,
                                          db_status |-> st1.db_status,
                                          api_status |-> st1.ret.status,
                                          request_id |-> getattr_request_id(rid) ],
                                        200))
    IN  reraise(st2, rid, "Error fetching resource items")

\* lines 328-346: the handler catches its own exception, logs it, annotates
\* the segment and returns the 500 response itself
error_endpoint(st, rid) ==
    LET e == "This is a test error"
        st1 == emit(st, "INFO", "Processing error endpoint request",
                    [ request_id |-> getattr_request_id(rid) ])
        st2 == emit(st1, "ERROR", "Error occurred",
                    [ request_id |-> getattr_request_id(rid) ])
        st3 == add_annotation(st2, "error")
    IN  IF st3.exc # NoExc THEN st3
        ELSE return(st3, jsonify([ error |-> e,
                                   request_id |-> getattr_request_id(rid) ], 500))

\* lines 349-351
health(st) == return(st, jsonify([ status |-> "healthy" ], 200))

\* the view function has returned or raised: Flask keeps the response, or
\* hands the exception to the registered error handler
Dispatched(r, st) ==
    /\ ctx' = [ ctx EXCEPT ![r] = [ st EXCEPT !.ret = NoExtra, !.from = 0,
                                              !.db_status = "" ] ]
    /\ IF st.exc # NoExc
       THEN /\ pc' = [ pc EXCEPT ![r] = "raised" ]
            /\ UNCHANGED response
       ELSE /\ pc' = [ pc EXCEPT ![r] = "respond" ]
            /\ response' = [ response EXCEPT ![r] = st.ret ]
    /\ UNCHANGED << config, issued, headers, path, request_id >>

\* the view has reached time.sleep, unless an exception left it before
Sleeping(r, st, where) ==
    IF st.exc # NoExc
    THEN Dispatched(r, st)
    ELSE /\ ctx' = [ ctx EXCEPT ![r] = st ]
         /\ pc' = [ pc EXCEPT ![r] = where ]
         /\ UNCHANGED << config, issued, headers, path, request_id, response >>

Index(r) ==
    /\ pc[r] = "dispatch" /\ path[r] = "/"
    /\ Dispatched(r, index(ctx[r], request_id[r]))

GetResource(r) ==
    /\ pc[r] = "dispatch" /\ path[r] = "/resources/42"
    /\ Sleeping(r, get_resource_begin(ctx[r], request_id[r]), "db_sleep")

GetResourceWake(r) ==
    /\ pc[r] = "db_sleep" /\ path[r] = "/resources/42"
    /\ \E draw \in Draws :
         Dispatched(r, get_resource_end(ctx[r], request_id[r], "42", draw))

GetResourceItems(r) ==
    /\ pc[r] = "dispatch" /\ path[r] = "/resources/42/items"
    /\ Sleeping(r, get_resource_items_begin(ctx[r], request_id[r]), "db_sleep")

GetResourceItemsDb(r) ==
    /\ pc[r] = "db_sleep" /\ path[r] = "/resources/42/items"
    /\ \E db_draw \in Draws :
         Sleeping(r, get_resource_items_db(ctx[r], request_id[r], db_draw),
                  "api_sleep")

GetResourceItemsApi(r) ==
    /\ pc[r] = "api_sleep" /\ path[r] = "/resources/42/items"
    /\ \E api_draw \in Draws :
         Dispatched(r, get_resource_items_end(ctx[r], request_id[r], "42",
                                              api_draw))

ErrorEndpoint(r) ==
    /\ pc[r] = "dispatch" /\ path[r] = "/error"
    /\ Dispatched(r, error_endpoint(ctx[r], request_id[r]))

Health(r) ==
    /\ pc[r] = "dispatch" /\ path[r] = "/health"
    /\ Dispatched(r, health(ctx[r]))

\* no route matches: the dispatcher raises NotFound, an Exception
NotFound(r) ==
    /\ pc[r] = "dispatch" /\ path[r] = "/nonexistent"
    /\ Dispatched(r, raise(ctx[r], "404 Not Found"))

\* ----------------------------------------- handle_exception (lines 139-147)
handle_exception_unknown_id(st, rid, e) ==
    return(emit(st, "ERROR", "Unhandled exception",
                [ request_id |-> getattr_request_id(rid) ]),
           jsonify([ error |-> e, request_id |-> "unknown" ], 500))

handle_exception(st, rid, e) ==
    return(emit(st, "ERROR", "Unhandled exception",
                [ request_id |-> getattr_request_id(rid) ]),
           jsonify([ error |-> e, request_id |-> getattr_request_id(rid) ], 500))

HandleException(r) ==
    /\ pc[r] = "raised"
    /\ LET st == handle_exception(ctx[r], request_id[r], ctx[r].exc)
       IN  /\ ctx' = [ ctx EXCEPT ![r] = [ st EXCEPT !.ret = NoExtra ] ]
           /\ response' = [ response EXCEPT ![r] = st.ret ]
    /\ pc' = [ pc EXCEPT ![r] = "respond" ]
    /\ UNCHANGED << config, issued, headers, path, request_id >>

\* -------------------------------------------- after_request (lines 114-136)
\* the header echoes the incoming header instead of request.request_id
after_request_echo(st, rid, h, resp) ==
    return(emit(st, "INFO", "Request completed",
                [ request_id |-> getattr_request_id(rid),
                  metadata_status_code |-> resp.status_code ]),
           [ resp EXCEPT !.headers =
               [ X_Request_ID |-> IF h # "" THEN h ELSE "unknown" ] ])

\* the completion record is written for successful responses only
after_request_quiet_on_error(st, rid, h, resp) ==
    return(IF resp.status_code >= 500 THEN st
           ELSE emit(st, "INFO", "Request completed",
                     [ request_id |-> getattr_request_id(rid),
                       metadata_status_code |-> resp.status_code ]),
           [ resp EXCEPT !.headers =
               [ X_Request_ID |-> getattr_request_id(rid) ] ])

after_request(st, rid, h, resp) ==
    return(emit(st, "INFO", "Request completed",
                [ request_id |-> getattr_request_id(rid),
                  metadata_status_code |-> resp.status_code ]),
           [ resp EXCEPT !.headers =
               [ X_Request_ID |-> getattr_request_id(rid) ] ])

AfterRequest(r) ==
    /\ pc[r] = "respond"
    /\ LET st == after_request(ctx[r], request_id[r], headers[r], response[r])
       IN  /\ ctx' = [ ctx EXCEPT ![r] = [ st EXCEPT !.ret = NoExtra ] ]
           /\ response' = [ response EXCEPT ![r] = st.ret ]
    /\ pc' = [ pc EXCEPT ![r] = "finalize" ]
    /\ UNCHANGED << config, issued, headers, path, request_id >>

\* the middleware's own after_request ends the request's segment, the
\* response leaves and the request context is torn down
Teardown(r) ==
    /\ pc[r] = "finalize"
    /\ ctx' = [ ctx EXCEPT ![r].entities = << >> ]
    /\ pc' = [ pc EXCEPT ![r] = "done" ]
    /\ UNCHANGED << config, issued, headers, path, request_id, response >>

Init ==
    /\ LOG_LEVEL \in DOMAIN levelno
    /\ ENABLE_X_RAY \in BOOLEAN
    /\ middleware \in BOOLEAN
    /\ context_missing \in { "LOG_ERROR", "RUNTIME_ERROR" }
    /\ put_fails \in BOOLEAN
    /\ ~ENABLE_X_RAY => ~middleware /\ context_missing = "LOG_ERROR" /\ ~put_fails
    /\ middleware => context_missing = "LOG_ERROR"
    /\ ~middleware => ~put_fails
    /\ issued = {}
    /\ pc = [ r \in Requests |-> "idle" ]
    /\ headers = [ r \in Requests |-> "" ]
    /\ path = [ r \in Requests |-> "" ]
    /\ request_id = [ r \in Requests |-> NoAttr ]
    /\ ctx = [ r \in Requests |-> EmptyCtx ]
    /\ response = [ r \in Requests |-> NoResponse ]

Next ==
    \E r \in Requests :
        \/ BeforeRequest(r)
        \/ Index(r)
        \/ GetResource(r)
        \/ GetResourceWake(r)
        \/ GetResourceItems(r)
        \/ GetResourceItemsDb(r)
        \/ GetResourceItemsApi(r)
        \/ ErrorEndpoint(r)
        \/ Health(r)
        \/ NotFound(r)
        \/ HandleException(r)
        \/ AfterRequest(r)
        \/ Teardown(r)

\* requests served by threads: any interleaving of the requests' steps
Spec == Init /\ [][Next]_vars

\* the same, with the configuration the defaults of lines 16-19 give and
\* X-Ray initialised as lines 78-86 leave it
InitDefault == Init /\ LOG_LEVEL = "INFO" /\ ENABLE_X_RAY /\ middleware /\ ~put_fails

SpecDefault == InitDefault /\ [][Next]_vars

\* ================================================================ claims ==
Started(r) == pc[r] # "idle"
Answered(r) == pc[r] \in { "finalize", "done" }
Log(r) == ctx[r].log
Indexes(seq, P(_)) == { i \in 1 .. Len(seq) : P(seq[i]) }

\* C1: a request that carries a non-empty X-Request-ID header R is answered,
\* on every route and on the error paths alike, with the response header
\* X-Request-ID equal to R.
C1_HeaderPropagated ==
    \A r \in Requests :
        Answered(r) /\ headers[r] # "" =>
            response[r].headers.X_Request_ID = headers[r]

C1_Witness ==
    \E r \in Requests :
        /\ pc[r] = "done" /\ headers[r] = "abc-123"
        /\ path[r] = "/resources/42/items" /\ response[r].status_code = 500
        /\ response[r].headers.X_Request_ID = "abc-123"

\* C2: a request without the header gets a generated identifier, and two such
\* requests never hold the same identifier, in request.request_id or in the
\* response header, whatever the interleaving of their steps; in particular
\* not while both are in flight with their response headers set. uuid4 is
\* taken to return a string it has not returned before.
HeaderOf(r) == response[r].headers.X_Request_ID

C2_GeneratedIdsDistinct ==
    \A r1, r2 \in Requests :
        /\ Started(r1) /\ headers[r1] = "" => request_id[r1] \in UUIDs
        /\ Answered(r1) /\ headers[r1] = "" => HeaderOf(r1) \in UUIDs
        /\ r1 # r2 /\ Started(r1) /\ Started(r2)
              /\ headers[r1] = "" /\ headers[r2] = ""
           => /\ request_id[r1] # request_id[r2]
              /\ Answered(r1) /\ Answered(r2) => HeaderOf(r1) # HeaderOf(r2)

C2_Witness ==
    /\ pc[1] = "finalize" /\ pc[2] = "finalize"
    /\ headers[1] = "" /\ headers[2] = ""
    /\ HeaderOf(1) \in UUIDs /\ HeaderOf(2) \in UUIDs

IsCompletion(rec) == rec.message = "Request completed"

\* C3 as stated: a request writes no completion record before after_request
\* and exactly one from then on, whatever the configuration: "Request
\* completed" at INFO level with the request's identifier, written last,
\* after the error handler's record when the error handler produced the
\* response.
C3_OneCompletionRecord ==
    \A r \in Requests :
        LET done == Indexes(Log(r), IsCompletion)
        IN  IF Answered(r)
            THEN /\ done = { Len(Log(r)) }
                 /\ Log(r)[Len(Log(r))].level = "INFO"
                 /\ Log(r)[Len(Log(r))].request_id = request_id[r]
                 /\ Log(r)[Len(Log(r))].status_code = response[r].status_code
            ELSE done = {}

\* C3, amended: a request writes no completion record before after_request;
\* from then on it has written exactly one when LOG_LEVEL is DEBUG or INFO
\* ("Request completed" at INFO level with the request's identifier and the
\* response's status, written last, after the error handler's record when
\* the error handler produced the response), and none when LOG_LEVEL is
\* WARNING, ERROR or CRITICAL, the logger dropping INFO records.
C3_OneCompletionRecordWhenEnabled ==
    \A r \in Requests :
        LET done == Indexes(Log(r), IsCompletion)
        IN  IF Answered(r) /\ LOG_LEVEL \in { "DEBUG", "INFO" }
            THEN /\ done = { Len(Log(r)) }
                 /\ Log(r)[Len(Log(r))].level = "INFO"
                 /\ Log(r)[Len(Log(r))].request_id = request_id[r]
                 /\ Log(r)[Len(Log(r))].status_code = response[r].status_code
            ELSE done = {}

IsUnhandled(rec) == rec.message = "Unhandled exception"

C3_Witness ==
    \E r \in Requests :
        /\ pc[r] = "done" /\ path[r] = "/nonexistent"
        /\ Indexes(Log(r), IsUnhandled) = { Len(Log(r)) - 1 }
        /\ Indexes(Log(r), IsCompletion) = { Len(Log(r)) }

Unbalanced == << "<unbalanced>" >>

RECURSIVE Replay(_, _)
Replay(trace, stack) ==
    IF trace = << >> THEN stack
    ELSE LET e == Head(trace)
         IN  IF e.op = "open" THEN Replay(Tail(trace), Append(stack, e.arg))
             ELSE IF e.op = "close"
             THEN IF stack # << >> /\ stack[Len(stack)] = e.arg
                  THEN Replay(Tail(trace), SubSeq(stack, 1, Len(stack) - 1))
                  ELSE Unbalanced
             ELSE Replay(Tail(trace), stack)

IsOpen(e) == e.op = "open"
IsClose(e) == e.op = "close"
IsAddException(e) == e.op = "add_exception"

\* the subsegments the recorder holds open, innermost last
OpenSubsegments(r) ==
    IF ctx[r].entities = << >> THEN << >> ELSE Tail(ctx[r].entities)

\* C4: replaying the subsegment events of a request as a stack, every close
\* closes the subsegment opened last and what the replay leaves open is what
\* the recorder holds open; a subsegment is open only while its operation
\* waits in its sleep, every opened subsegment has been closed when the call
\* returns, and none is open once the handler is over.
C4_SubsegmentsBalanced ==
    \A r \in Requests :
        /\ Replay(ctx[r].trace, << >>) = OpenSubsegments(r)
        /\ pc[r] \notin { "db_sleep", "api_sleep" } => OpenSubsegments(r) = << >>
        /\ Len(OpenSubsegments(r)) <= 1
        /\ \A i \in 1 .. Len(ctx[r].sims) :
             Replay(SubSeq(ctx[r].trace, ctx[r].sims[i].from, ctx[r].sims[i].to),
                    << >>) = << >>

C4_Witness ==
    \E r, q \in Requests :
        /\ pc[q] = "api_sleep"
        /\ OpenSubsegments(q) = << "external_api_validation_service" >>
        /\ pc[r] = "done" /\ path[r] = "/resources/42/items"
        /\ Cardinality(Indexes(ctx[r].trace, IsOpen)) = 2
        /\ Cardinality(Indexes(ctx[r].trace, IsClose)) = 2
        /\ Cardinality(Indexes(ctx[r].trace, IsAddException)) = 1

\* C6: a call of simulate_db_operation or simulate_external_api_call ends
\* with the result, and goes through the sleeps, random draws and log
\* emissions, of the branch taken when ENABLE_X_RAY is false, for the same
\* name and draw.
IsFunctional(e) == e.op \in { "sleep", "random", "log" }

Reference(c) ==
    IF c.fn = "db" THEN simulate_db_operation_plain(EmptyCtx, c.name, c.draw)
    ELSE simulate_external_api_call_plain(EmptyCtx, c.name, c.draw)

C6_SameWithAndWithoutTracing ==
    \A r \in Requests :
        \A i \in 1 .. Len(ctx[r].sims) :
            LET c == ctx[r].sims[i]
            IN  /\ c.result = Reference(c).sims[1].result
                /\ SelectSeq(SubSeq(ctx[r].trace, c.from, c.to), IsFunctional)
                     = SelectSeq(Reference(c).trace, IsFunctional)

\* C7: when an exception has left the view function, the request is answered
\* with status 500 and a body whose error is the exception's message and
\* whose request_id is the request's identifier, the same value as the
\* X-Request-ID response header.
C7_UniformErrorResponse ==
    \A r \in Requests :
        ctx[r].exc # NoExc /\ pc[r] \in { "respond", "finalize", "done" } =>
            /\ response[r].status_code = 500
            /\ DOMAIN response[r].body = { "error", "request_id" }
            /\ response[r].body.error = ctx[r].exc
            /\ response[r].body.request_id = request_id[r]
            /\ Answered(r) => HeaderOf(r) = response[r].body.request_id

C7_Witness ==
    \E r \in Requests :
        /\ pc[r] = "done" /\ ctx[r].exc = NoneAttribute
        /\ response[r].status_code = 500
        /\ response[r].body.request_id = HeaderOf(r)

\* C8: a request to /error is answered with status 500 and a body with error
\* and request_id, and exactly one ERROR record was written with the
\* request's identifier.
ErrorRecordsOf(r) ==
    { i \in 1 .. Len(Log(r)) :
        /\ Log(r)[i].level = "ERROR"
        /\ "request_id" \in DOMAIN Log(r)[i]
        /\ Log(r)[i].request_id = request_id[r] }

C8_ErrorRouteOneErrorRecord ==
    \A r \in Requests :
        path[r] = "/error" /\ Answered(r) =>
            /\ response[r].status_code = 500
            /\ { "error", "request_id" } \subseteq DOMAIN response[r].body
            /\ Cardinality(ErrorRecordsOf(r)) = 1

\* C9: every record a request writes carries request_id, and it is the
\* request's identifier.
C9_EveryRecordHasRequestId ==
    \A r \in Requests :
        \A i \in 1 .. Len(Log(r)) :
            /\ "request_id" \in DOMAIN Log(r)[i]
            /\ Log(r)[i].request_id = request_id[r]

\* C10: no call of add_annotation or add_metadata ends by raising to its
\* caller.
C10_AttachNeverRaises ==
    \A r \in Requests :
        \A i \in 1 .. Len(ctx[r].calls) : ctx[r].calls[i].outcome # "raised"
====
